---- MODULE Spec2Model ----
(***************************************************************************)
(* Model of the race prediction engine (RalpFI/src/predictions/engine.py). *)
(*                                                                         *)
(* Python floats are modelled as exact rationals [n, d] in lowest terms    *)
(* with d > 0, so equalities below are equalities of real numbers; the     *)
(* program's results agree with them up to floating-point rounding.        *)
(* Python Optional values are modelled as sequences of length 0 (None)     *)
(* or 1 (a value).  Python dicts are modelled as functions from the keys   *)
(* that are present; an ordered dict of drivers is a sequence of           *)
(* [code, data] pairs in insertion order.                                  *)
(***************************************************************************)
EXTENDS Integers, Sequences, FiniteSets, TLC

VARIABLES frames, config, lap_times_cache, pace_models, call

vars == <<frames, config, lap_times_cache, pace_models, call>>

(***************************************************************************)
(* Rational arithmetic (Python float arithmetic, exact).                   *)
(***************************************************************************)
Abs(x) == IF x < 0 THEN -x ELSE x

RECURSIVE GCD(_, _)
GCD(a, b) == IF b = 0 THEN a ELSE GCD(b, a % b)

Sign(x) == IF x < 0 THEN -1 ELSE 1

R(n, d) ==
    LET g == GCD(Abs(n), Abs(d))
    IN  [n |-> (Sign(d) * n) \div g, d |-> Abs(d) \div g]

RInt(i) == [n |-> i, d |-> 1]
\* Common factors are cancelled before multiplying, so that intermediate
\* products stay within TLC's integers; the values are unchanged.
RAdd(a, b) ==
    LET g == GCD(a.d, b.d)
    IN  R(a.n * (b.d \div g) + b.n * (a.d \div g), (a.d \div g) * b.d)

RSub(a, b) ==
    LET g == GCD(a.d, b.d)
    IN  R(a.n * (b.d \div g) - b.n * (a.d \div g), (a.d \div g) * b.d)

RMul(a, b) ==
    LET g1 == GCD(Abs(a.n), b.d)
        g2 == GCD(Abs(b.n), a.d)
    IN  R((a.n \div g1) * (b.n \div g2), (a.d \div g2) * (b.d \div g1))

RDiv(a, b) ==
    LET g1 == GCD(Abs(a.n), Abs(b.n))
        g2 == GCD(a.d, b.d)
    IN  R((a.n \div g1) * (b.d \div g2), (a.d \div g2) * (b.n \div g1))

RLt(a, b) ==
    LET g == GCD(a.d, b.d)
    IN  a.n * (b.d \div g) < b.n * (a.d \div g)

RLe(a, b) ==
    LET g == GCD(a.d, b.d)
    IN  a.n * (b.d \div g) <= b.n * (a.d \div g)
RMin(a, b) == IF RLt(b, a) THEN b ELSE a
RMax(a, b) == IF RLt(a, b) THEN b ELSE a
RTrunc(a) == IF a.n >= 0 THEN a.n \div a.d ELSE -((-a.n) \div a.d)

(***************************************************************************)
(* Optional values and dict access.                                        *)
(***************************************************************************)
None == <<>>
Some(v) == <<v>>
IsNone(o) == Len(o) = 0
Val(o) == o[1]

Get(data, key, default) == IF key \in DOMAIN data THEN data[key] ELSE default

Codes(drivers) == {drivers[i].code : i \in 1..Len(drivers)}

HasDriver(drivers, code) == code \in Codes(drivers)

DriverData(drivers, code) ==
    LET i == CHOOSE j \in 1..Len(drivers) : drivers[j].code = code
    IN  drivers[i].data

(***************************************************************************)
(* extract_lap_times: one iteration of the loop over frames, and the loop. *)
(***************************************************************************)
ExtractInit ==
    [lap_times |-> <<>>, lap_start_time |-> None, lap_start_tyre |-> None,
     current_lap |-> None, tyre_stint_start_lap |-> 1, last_tyre |-> None]

\* A slip of MissingDriverStep: the lap is closed but stays tracked.
MissingDriverStep_KeepsTracking(st) ==
    IF ~IsNone(st.lap_start_time)
    THEN [st EXCEPT !.lap_times =
                        Append(@, [lap |-> Val(st.current_lap), time |-> None,
                                   tyre |-> Val(st.last_tyre),
                                   tyre_age |-> Val(st.current_lap) - st.tyre_stint_start_lap,
                                   valid |-> FALSE])]
    ELSE st

\* The driver is not in the frame: close the lap being tracked, if any.
MissingDriverStep(st) ==
    IF ~IsNone(st.lap_start_time)
    THEN LET cl == st.current_lap
             truthy == ~IsNone(cl) /\ Val(cl) # 0
             rec == [lap |-> Val(cl),
                     time |-> None,
                     tyre |-> Val(st.last_tyre),
                     tyre_age |-> IF truthy THEN Val(cl) - st.tyre_stint_start_lap ELSE 0,
                     valid |-> FALSE]
         IN  [st EXCEPT !.lap_times = Append(@, rec),
                        !.lap_start_time = None,
                        !.current_lap = None]
    ELSE st

\* A slip of TyreChangeStep: the compound is recorded, the stint start is not reset.
TyreChangeStep_NoReset(st, tyre, driver_lap) ==
    [st EXCEPT !.last_tyre = Some(tyre)]

\* Detect tyre change (pit stop): the stint starts at the lap the frame reports.
TyreChangeStep(st, tyre, driver_lap) ==
    [st EXCEPT !.tyre_stint_start_lap =
                   IF ~IsNone(st.last_tyre) /\ tyre # Val(st.last_tyre)
                   THEN driver_lap ELSE @,
               !.last_tyre = Some(tyre)]

\* lap_time = timestamp - lap_start_time if lap_start_time else None
LapTime(timestamp, lap_start_time) ==
    IF ~IsNone(lap_start_time) /\ Val(lap_start_time).n # 0
    THEN Some(RSub(timestamp, Val(lap_start_time)))
    ELSE None

\* A slip of LapValid: the limits 60.0 and 150.0 themselves count as invalid.
LapValid_Inclusive(lap_time) ==
    IF ~IsNone(lap_time)
    THEN ~(RLe(RInt(150), Val(lap_time)) \/ RLe(Val(lap_time), RInt(60)))
    ELSE TRUE

\* valid unless the lap has a time > 150.0 or < 60.0
LapValid(lap_time) ==
    IF ~IsNone(lap_time)
    THEN ~(RLt(RInt(150), Val(lap_time)) \/ RLt(Val(lap_time), RInt(60)))
    ELSE TRUE

\* A slip of LapChangeStep: the record goes to the front of the list.
LapChangeStep_Prepends(st, driver_lap, timestamp, tyre) ==
    LET lap_time == LapTime(timestamp, st.lap_start_time)
        rec == [lap |-> Val(st.current_lap),
                time |-> lap_time,
                tyre |-> IF ~IsNone(st.lap_start_tyre) THEN Val(st.lap_start_tyre) ELSE tyre,
                tyre_age |-> Val(st.current_lap) - st.tyre_stint_start_lap,
                valid |-> LapValid(lap_time)]
    IN  [st EXCEPT !.lap_times = <<rec>> \o @,
                   !.current_lap = Some(driver_lap),
                   !.lap_start_time = Some(timestamp),
                   !.lap_start_tyre = Some(tyre)]

\* Lap change detected: emit the record of the completed lap, track the new one.
LapChangeStep(st, driver_lap, timestamp, tyre) ==
    LET lap_time == LapTime(timestamp, st.lap_start_time)
        rec == [lap |-> Val(st.current_lap),
                time |-> lap_time,
                tyre |-> IF ~IsNone(st.lap_start_tyre) THEN Val(st.lap_start_tyre) ELSE tyre,
                tyre_age |-> Val(st.current_lap) - st.tyre_stint_start_lap,
                valid |-> LapValid(lap_time)]
    IN  [st EXCEPT !.lap_times = Append(@, rec),
                   !.current_lap = Some(driver_lap),
                   !.lap_start_time = Some(timestamp),
                   !.lap_start_tyre = Some(tyre)]

ExtractStep(st, frame, driver_code) ==
    LET drivers == Get(frame, "drivers", <<>>)
    IN  IF ~HasDriver(drivers, driver_code)
        THEN MissingDriverStep(st)
        ELSE LET driver_data == DriverData(drivers, driver_code)
                 driver_lap == Get(driver_data, "lap", 1)
                 timestamp == Get(frame, "t", RInt(0))
                 tyre == Get(driver_data, "tyre", 0)
                 st1 == TyreChangeStep(st, tyre, driver_lap)
             IN  IF IsNone(st1.current_lap)
                 THEN [st1 EXCEPT !.current_lap = Some(driver_lap),
                                  !.lap_start_time = Some(timestamp),
                                  !.lap_start_tyre = Some(tyre)]
                 ELSE IF driver_lap > Val(st1.current_lap)
                      THEN LapChangeStep(st1, driver_lap, timestamp, tyre)
                      ELSE st1

RECURSIVE ExtractLoop(_, _, _)
ExtractLoop(fs, driver_code, end_frame) ==
    IF end_frame <= 0
    THEN ExtractInit
    ELSE ExtractStep(ExtractLoop(fs, driver_code, end_frame - 1),
                     fs[end_frame], driver_code)

Min(a, b) == IF a < b THEN a ELSE b
Max(a, b) == IF a > b THEN a ELSE b

\* A slip of EndFrame: the frame at index up_to_frame is processed as well.
EndFrame_Inclusive(up_to_frame, n) == Min(up_to_frame + 1, n)

\* end_frame = min(up_to_frame, len(frames)); range(end_frame) stops before it.
EndFrame(up_to_frame, n) == Min(up_to_frame, n)

extract_lap_times(fs, driver_code, up_to_frame) ==
    IF Len(fs) = 0 \/ up_to_frame <= 0
    THEN <<>>
    ELSE ExtractLoop(fs, driver_code, EndFrame(up_to_frame, Len(fs))).lap_times

(***************************************************************************)
(* Engine state (PredictionEngine.__init__) and the record of the last     *)
(* completed call: its name, its arguments and what it returned.           *)
(***************************************************************************)
PredictionConfig ==
    [pace_window_laps |-> 5, update_interval_frames |-> 25,
     pit_window_buffer_laps |-> 3, danger_threshold_seconds |-> R(3, 2),
     overtake_probability_threshold |-> R(3, 10)]

NoCall == [fn |-> "none"]

EngineInit ==
    /\ config = PredictionConfig
    /\ lap_times_cache = <<>>
    /\ pace_models = <<>>
    /\ call = NoCall

EngineUnchanged == UNCHANGED <<config, lap_times_cache, pace_models>>

(***************************************************************************)
(* Lap extraction over a replay.  The frame source appends frames in       *)
(* increasing-time order; the extractor is queried for one driver with the *)
(* cursor at the end of the frames seen so far.                            *)
(***************************************************************************)
MaxFrames == 4

Driver == "VER"
FirstStamps == {0, 30}
FrameGaps == {30, 90}
LapMoves == {-1, 0, 1}
Tyres == {0, 1}

RECURSIVE LastLap(_)
LastLap(fs) ==
    IF Len(fs) = 0 THEN 1
    ELSE IF HasDriver(fs[Len(fs)].drivers, Driver)
         THEN DriverData(fs[Len(fs)].drivers, Driver).lap
         ELSE LastLap(SubSeq(fs, 1, Len(fs) - 1))

NextStamps(fs) ==
    IF Len(fs) = 0
    THEN {RInt(t) : t \in FirstStamps}
    ELSE {RAdd(fs[Len(fs)].t, RInt(g)) : g \in FrameGaps}

NextLapDrivers(fs) ==
    {<<>>} \cup
    {<<[code |-> Driver, data |-> [lap |-> l, tyre |-> ty]]>> :
        l \in {LastLap(fs) + m : m \in LapMoves} \ {0}, ty \in Tyres}

NextLapFrames(fs) ==
    {[t |-> ts, drivers |-> ds] : ts \in NextStamps(fs), ds \in NextLapDrivers(fs)}

InitLaps ==
    /\ frames = <<>>
    /\ EngineInit

ExtractLapTimes ==
    /\ Len(frames) < MaxFrames
    /\ \E f \in NextLapFrames(frames) :
          /\ frames' = Append(frames, f)
          /\ call' = [fn |-> "extract_lap_times",
                      driver_code |-> Driver,
                      up_to_frame |-> Len(frames'),
                      result |-> extract_lap_times(frames', Driver, Len(frames'))]
    /\ EngineUnchanged

NextLaps == ExtractLapTimes

SpecLaps == InitLaps /\ [][NextLaps]_vars

(***************************************************************************)
(* Lap extraction with a free cursor: a few frames are loaded, then the    *)
(* extractor is queried once with a bound below, inside or past them.      *)
(***************************************************************************)
MaxLoaded == 3

UpToFrames(fs) == -1..(Len(fs) + 1)

InitBound ==
    /\ frames = <<>>
    /\ EngineInit

LoadFrame ==
    /\ call = NoCall
    /\ Len(frames) < MaxLoaded
    /\ \E f \in NextLapFrames(frames) : frames' = Append(frames, f)
    /\ UNCHANGED call
    /\ EngineUnchanged

ExtractUpTo ==
    /\ call = NoCall
    /\ \E up_to_frame \in UpToFrames(frames) :
          call' = [fn |-> "extract_lap_times",
                   driver_code |-> Driver,
                   up_to_frame |-> up_to_frame,
                   result |-> extract_lap_times(frames, Driver, up_to_frame)]
    /\ UNCHANGED frames
    /\ EngineUnchanged

NextBound ==
    \/ LoadFrame
    \/ ExtractUpTo

SpecBound == InitBound /\ [][NextBound]_vars

(***************************************************************************)
(* Properties of extract_lap_times.                                        *)
(***************************************************************************)
Present(fs, i) == HasDriver(fs[i].drivers, Driver)
LapAt(fs, i) == DriverData(fs[i].drivers, Driver).lap
TyreAt(fs, i) == DriverData(fs[i].drivers, Driver).tyre

LapsNeverDecrease(fs) ==
    \A i, j \in 1..Len(fs) :
        (i < j /\ Present(fs, i) /\ Present(fs, j)) => LapAt(fs, i) <= LapAt(fs, j)

AlwaysPresent(fs) == \A i \in 1..Len(fs) : Present(fs, i)

\* Frames in which the compound differs from the one in the frame before.
TyreChanges(fs) == {i \in 2..Len(fs) : TyreAt(fs, i) # TyreAt(fs, i - 1)}

Extracted == call.fn = "extract_lap_times"

\* C2: with a lap number that never decreases, every extracted record has
\* tyre_age >= 0, wherever the compound change is first observed.
C2_TyreAgeNonNegative ==
    (Extracted /\ LapsNeverDecrease(frames)) =>
        \A i \in 1..Len(call.result) : call.result[i].tyre_age >= 0

OnePitStop == Extracted /\ AlwaysPresent(frames) /\ LapsNeverDecrease(frames)
                 /\ Cardinality(TyreChanges(frames)) = 1

PitLap == LapAt(frames, CHOOSE i \in TyreChanges(frames) : TRUE)

\* C3: with exactly one compound change, first observed in a frame reporting
\* lap L, the record for lap L has tyre_age 0 and the record for every later
\* lap M has tyre_age M - L.
C3_TyreAgeCountsFromPitLap ==
    OnePitStop =>
        \A i \in 1..Len(call.result) :
            LET r == call.result[i]
            IN  r.lap >= PitLap => r.tyre_age = r.lap - PitLap

\* C3 witness: one compound change seen in the very frame in which the lap
\* number increases, with a record for that lap and one for a later lap.
C3_Witness ==
    /\ OnePitStop
    /\ LET k == CHOOSE i \in TyreChanges(frames) : TRUE
       IN  LapAt(frames, k) > LapAt(frames, k - 1)
    /\ \E i, j \in 1..Len(call.result) :
          /\ call.result[i].lap = PitLap /\ call.result[i].tyre_age = 0
          /\ call.result[j].lap > PitLap /\ call.result[j].tyre_age > 0

\* C13: with a lap number that never decreases, the driver possibly absent
\* from some frames and back later, the records carry strictly increasing
\* lap numbers, so at most one record per lap.
C13_OneRecordPerLap ==
    (Extracted /\ LapsNeverDecrease(frames)) =>
        \A i, j \in 1..Len(call.result) :
            i < j => call.result[i].lap < call.result[j].lap

\* The frame in which the lap tracked after frame k began: the frame of the
\* last lap increase since the driver (re)appeared; 0 when none is tracked.
RECURSIVE LapStartFrame(_, _)
LapStartFrame(fs, k) ==
    IF k = 0 \/ ~Present(fs, k) THEN 0
    ELSE LET s == LapStartFrame(fs, k - 1)
         IN  IF s = 0 THEN k
             ELSE IF LapAt(fs, k) > LapAt(fs, s) THEN k ELSE s

LapCompleted ==
    /\ Extracted
    /\ Len(frames) >= 2
    /\ Present(frames, Len(frames))
    /\ LapStartFrame(frames, Len(frames) - 1) # 0
    /\ LapAt(frames, Len(frames)) > LapAt(frames, LapStartFrame(frames, Len(frames) - 1))

\* C14: when the reported lap number increases in a frame stamped t2 and the
\* tracked lap began in a frame stamped t1, the record emitted for that lap
\* has time t2 - t1, for all 0 <= t1 <= t2, a lap begun at t1 = 0 included.
C14_LapTimeIsElapsed ==
    LapCompleted =>
        LET s == LapStartFrame(frames, Len(frames) - 1)
            res == call.result
        IN  /\ Len(res) > 0
            /\ res[Len(res)].lap = LapAt(frames, s)
            /\ res[Len(res)].time = Some(RSub(frames[Len(frames)].t, frames[s].t))

\* The number of frames a query with bound b looks at.
InRangeFrames(fs, b) == IF b <= 0 THEN 0 ELSE IF b < Len(fs) THEN b ELSE Len(fs)

\* The first frame among the first m in which the driver appears; m + 1 if none.
FirstAppearance(fs, m) ==
    IF \E i \in 1..m : Present(fs, i)
    THEN CHOOSE i \in 1..m : Present(fs, i) /\ \A j \in 1..(i - 1) : ~Present(fs, j)
    ELSE m + 1

\* C16: the result is empty when frames is empty or up_to_frame <= 0; the
\* bound is exclusive, the result for bound b being the result on the first
\* min(b, len(frames)) frames alone; the first frame in which the driver
\* appears produces no record, so a single-frame range gives the empty list.
C16_ExclusiveBound ==
    Extracted =>
        LET b == call.up_to_frame
            m == InRangeFrames(frames, b)
            head == SubSeq(frames, 1, m)
        IN  /\ (Len(frames) = 0 \/ b <= 0) => call.result = <<>>
            /\ call.result = extract_lap_times(head, Driver, m)
            /\ Len(call.result) <= Max(0, m - FirstAppearance(frames, m))
            /\ m = 1 => call.result = <<>>

\* C16 witness: a bound inside the frames that yields a record, with a lap
\* change in a frame at or past the bound that yields none.
C16_Witness ==
    /\ Extracted
    /\ call.up_to_frame > 0
    /\ call.up_to_frame < Len(frames)
    /\ Len(call.result) >= 1
    /\ Len(extract_lap_times(frames, Driver, Len(frames))) > Len(call.result)

\* C17: a record with a non-null time is invalid exactly when the time is
\* above 150 or below 60; times of exactly 60 and exactly 150 are valid.
C17_ValidityLimits ==
    Extracted =>
        \A i \in 1..Len(call.result) :
            LET r == call.result[i]
            IN  r.time # None =>
                    (~r.valid <=> (Val(r.time).n > 150 * Val(r.time).d
                                   \/ Val(r.time).n < 60 * Val(r.time).d))

\* C17 witness: a lap of exactly 150 seconds, recorded as valid.
C17_Witness ==
    /\ Extracted
    /\ \E i \in 1..Len(call.result) :
          call.result[i].time = Some(RInt(150)) /\ call.result[i].valid

PrevResult == IF Extracted THEN call.result ELSE <<>>

Tracking == Len(frames) > 0 /\ Present(frames, Len(frames))

\* One more frame is processed: what the extraction gains from it.
FrameStep ==
    LET k == Len(frames)
        res == call'.result
    IN  /\ (~Present(frames', k + 1) /\ Tracking) =>
              /\ Len(res) = Len(PrevResult) + 1
              /\ SubSeq(res, 1, Len(PrevResult)) = PrevResult
              /\ res[Len(res)].lap = LapAt(frames, LapStartFrame(frames, k))
              /\ res[Len(res)].time = None
              /\ res[Len(res)].valid = FALSE
        /\ (~Present(frames', k + 1) /\ ~Tracking) => res = PrevResult
        /\ (Present(frames', k + 1) /\ ~Tracking) => res = PrevResult

\* C15: a frame without the driver while a lap is tracked adds exactly one
\* record, for that lap, with time null and valid false; the missing frames
\* that follow add nothing; the frame in which the driver is back only
\* re-seeds lap, timestamp and tyre and adds nothing.
C15_MissingDriverClosesLap == [][Len(frames') = Len(frames) + 1 => FrameStep]_vars

IsPrefix(a, b) == Len(a) <= Len(b) /\ SubSeq(b, 1, Len(a)) = a

\* C27: as the cursor advances over the growing frame list the extracted
\* history only grows: the result at the earlier cursor is a prefix of the
\* result at the later one, no record being changed or removed.
C27_HistoryOnlyGrows == [][IsPrefix(PrevResult, call'.result)]_vars

\* C27 witness: three records, the last one added by the last frame to the
\* two records the frames before it gave.
C27_Witness ==
    /\ Extracted
    /\ Len(call.result) = 3
    /\ call.result[1] # call.result[2]
    /\ Len(extract_lap_times(frames, Driver, Len(frames) - 1)) = 2

\* C28: every record with a null time has valid = false, also when the
\* first frame is stamped 0.
C28_NullTimeIsInvalid ==
    Extracted =>
        \A i \in 1..Len(call.result) :
            call.result[i].time = None => ~call.result[i].valid

\* C15 witness: present, missing twice, present again, and one record in all.
C15_Witness ==
    /\ Extracted
    /\ Len(frames) = 4
    /\ Present(frames, 1) /\ ~Present(frames, 2)
    /\ ~Present(frames, 3) /\ Present(frames, 4)
    /\ Len(call.result) = 1
    /\ call.result[1].time = None
    /\ ~call.result[1].valid

(***************************************************************************)
(* estimate_tyre_degradation.                                              *)
(***************************************************************************)
\* TYRE_CLIFF_ESTIMATES.get(compound, 30)
TYRE_CLIFF_ESTIMATES(compound) ==
    CASE compound = 0 -> 18
      [] compound = 1 -> 30
      [] compound = 2 -> 40
      [] compound = 3 -> 25
      [] compound = 4 -> 35
      [] OTHER -> 30

TyreState(compound, laps_on_tyre, deg_rate, cliff, remaining) ==
    [compound |-> compound, laps_on_tyre |-> laps_on_tyre, deg_rate |-> deg_rate,
     estimated_cliff_lap |-> cliff, remaining_optimal_laps |-> remaining]

\* The backward scan for the current stint: records of the last record's
\* compound that are valid are kept; any other record ends the scan once the
\* stint is non-empty.
RECURSIVE StintScan(_, _, _, _)
StintScan(lap_times, i, current_compound, stint_laps) ==
    IF i = 0 THEN stint_laps
    ELSE IF lap_times[i].tyre = current_compound /\ lap_times[i].valid
         THEN StintScan(lap_times, i - 1, current_compound, <<lap_times[i]>> \o stint_laps)
         ELSE IF Len(stint_laps) > 0
              THEN stint_laps
              ELSE StintScan(lap_times, i - 1, current_compound, stint_laps)

\* Python truthiness of lt.get("time"): neither None nor 0.
Timed(lt) == ~IsNone(lt.time) /\ Val(lt.time).n # 0

TimedLaps(stint_laps) == SelectSeq(stint_laps, Timed)

RECURSIVE SumInt(_, _)
SumInt(f, n) == IF n = 0 THEN 0 ELSE f[n] + SumInt(f, n - 1)

RECURSIVE SumRat(_, _)
SumRat(f, n) == IF n = 0 THEN RInt(0) ELSE RAdd(f[n], SumRat(f, n - 1))

\* Least-squares slope of time against tyre_age; 0.0 on a zero denominator.
RegressionSlope(pts) ==
    LET n == Len(pts)
        sum_x == SumInt([i \in 1..n |-> pts[i].tyre_age], n)
        sum_y == SumRat([i \in 1..n |-> Val(pts[i].time)], n)
        sum_xy == SumRat([i \in 1..n |-> RMul(RInt(pts[i].tyre_age), Val(pts[i].time))], n)
        sum_xx == SumInt([i \in 1..n |-> pts[i].tyre_age * pts[i].tyre_age], n)
        denominator == n * sum_xx - sum_x * sum_x
    IN  IF denominator = 0
        THEN RInt(0)
        ELSE RDiv(RSub(RMul(RInt(n), sum_xy), RMul(RInt(sum_x), sum_y)),
                  RInt(denominator))

\* A slip of ClampDegRate: only the lower clamp is applied.
ClampDegRate_NoUpper(deg_rate) == RMax(RInt(0), deg_rate)

\* deg_rate = max(0.0, min(0.3, deg_rate))
ClampDegRate(deg_rate) == RMax(RInt(0), RMin(R(3, 10), deg_rate))

\* A slip of AdjustCliff: a rate of exactly 0.1 already takes the 20% cut.
AdjustCliff_Inclusive(base_cliff, deg_rate) ==
    IF RLe(R(1, 10), deg_rate) THEN RTrunc(RMul(RInt(base_cliff), R(8, 10)))
    ELSE IF RLt(R(5, 100), deg_rate) THEN RTrunc(RMul(RInt(base_cliff), R(9, 10)))
    ELSE base_cliff

\* Higher degradation, earlier cliff: int(base * 0.8), int(base * 0.9) or base.
AdjustCliff(base_cliff, deg_rate) ==
    IF RLt(R(1, 10), deg_rate) THEN RTrunc(RMul(RInt(base_cliff), R(8, 10)))
    ELSE IF RLt(R(5, 100), deg_rate) THEN RTrunc(RMul(RInt(base_cliff), R(9, 10)))
    ELSE base_cliff

\* remaining_optimal = max(0, cliff - laps_on_tyre)
RemainingOptimal(cliff, laps_on_tyre) == Max(0, cliff - laps_on_tyre)

estimate_tyre_degradation(lap_times) ==
    IF Len(lap_times) = 0
    THEN TyreState(0, 0, RInt(0), 18, 18)
    ELSE LET current_compound == lap_times[Len(lap_times)].tyre
             stint_laps == StintScan(lap_times, Len(lap_times), current_compound, <<>>)
             laps_on_tyre == Len(stint_laps)
             pts == TimedLaps(stint_laps)
             base_cliff == TYRE_CLIFF_ESTIMATES(current_compound)
         IN  IF laps_on_tyre < 2 \/ Len(pts) < 2
             THEN TyreState(current_compound, laps_on_tyre, RInt(0), base_cliff,
                            RemainingOptimal(base_cliff, laps_on_tyre))
             ELSE LET deg_rate == ClampDegRate(RegressionSlope(pts))
                      estimated_cliff == AdjustCliff(base_cliff, deg_rate)
                  IN  TyreState(current_compound, laps_on_tyre, deg_rate, estimated_cliff,
                                RemainingOptimal(estimated_cliff, laps_on_tyre))

(***************************************************************************)
(* calculate_rolling_pace.                                                 *)
(***************************************************************************)
\* sorted(times), by insertion.
RECURSIVE SortTimes(_)
SortTimes(times) ==
    IF Len(times) <= 1 THEN times
    ELSE LET n == Len(times)
             x == times[n]
             sorted == SortTimes(SubSeq(times, 1, n - 1))
         IN  SelectSeq(sorted, LAMBDA t : RLe(t, x)) \o <<x>> \o
             SelectSeq(sorted, LAMBDA t : RLt(x, t))

\* The median of a non-empty list of times.
Median(times) ==
    LET sorted_times == SortTimes(times)
        n == Len(sorted_times)
    IN  IF n % 2 = 0
        THEN RDiv(RAdd(sorted_times[n \div 2], sorted_times[(n \div 2) + 1]), RInt(2))
        ELSE sorted_times[(n \div 2) + 1]

\* clean_times[-window:] if len(clean_times) > window else clean_times
Recent(clean_times, window) ==
    LET n == Len(clean_times)
    IN  IF n > window
        THEN IF window > 0 THEN SubSeq(clean_times, n - window + 1, n)
             ELSE IF window = 0 THEN clean_times
             ELSE SubSeq(clean_times, Min(n, -window) + 1, n)
        ELSE clean_times

Mean(times) == RDiv(SumRat(times, Len(times)), RInt(Len(times)))

\* Filter out pit laps (> 120% of median)
CleanTimes(times) ==
    LET threshold == RMul(Median(times), R(120, 100))
    IN  SelectSeq(times, LAMBDA t : RLe(t, threshold))

\* A slip of RollingPaceOf: the last `window` times are taken first, the
\* outliers among them dropped afterwards.
RollingPaceOf_WindowFirst(times, window) ==
    LET clean_times == CleanTimes(Recent(times, window))
    IN  IF Len(clean_times) = 0 THEN Median(Recent(times, window)) ELSE Mean(clean_times)

\* The pace of a non-empty list of valid lap times.
RollingPaceOf(times, window) ==
    LET clean_times == CleanTimes(times)
    IN  IF Len(clean_times) = 0 THEN Median(times) ELSE Mean(Recent(clean_times, window))

calculate_rolling_pace(lap_times, window) ==
    IF Len(lap_times) = 0 THEN RInt(0)
    ELSE LET valid_laps == SelectSeq(lap_times, LAMBDA lt : lt.valid /\ ~IsNone(lt.time))
         IN  IF Len(valid_laps) = 0 THEN RInt(0)
             ELSE RollingPaceOf([i \in 1..Len(valid_laps) |-> Val(valid_laps[i].time)],
                                window)

(***************************************************************************)
(* Tyre-degradation estimates over lap-record lists: every short list over *)
(* a small record alphabet, and single stints with a linear lap-time trend *)
(* long enough to run past the cliff.                                      *)
(***************************************************************************)
MaxRecs == 3
MaxStint == 20

\* An untimed record, and a lap of 70 s on fresh tyres or 71 s a lap later.
RecPaces == {<<None, 0>>, <<Some(RInt(70)), 0>>, <<Some(RInt(71)), 1>>}
RecTyres == {0, 5}
StintCompounds == 0..5
StintTrends == {R(-1, 1), RInt(0), R(1, 20), R(2, 25), R(1, 10), R(1, 5), RInt(1)}
StintBases == {70, 71}

ShortLists ==
    UNION {[1..n -> [pace : RecPaces, tyre : RecTyres, valid : BOOLEAN]]
              : n \in 0..MaxRecs}

WithLaps(recs) ==
    [i \in 1..Len(recs) |->
        [lap |-> i, time |-> recs[i].pace[1], tyre |-> recs[i].tyre,
         tyre_age |-> recs[i].pace[2], valid |-> recs[i].valid]]

LinearStint(n, compound, base, trend) ==
    [i \in 1..n |->
        [lap |-> i, time |-> Some(RAdd(RInt(base), RMul(RInt(i - 1), trend))),
         tyre |-> compound, tyre_age |-> i - 1, valid |-> TRUE]]

RecordLists ==
    {WithLaps(recs) : recs \in ShortLists} \cup
    {LinearStint(n, c, b, tr) :
        n \in 2..MaxStint, c \in StintCompounds, b \in StintBases, tr \in StintTrends}

\* Lap records for the rolling pace: untimed, invalid, regular laps of 70 s,
\* laps at 120% of that and just above, and a slow lap of 100 s.
PaceRecs ==
    {<<None, TRUE>>, <<Some(RInt(70)), FALSE>>, <<Some(RInt(70)), TRUE>>,
     <<Some(RInt(84)), TRUE>>, <<Some(RInt(85)), TRUE>>, <<Some(RInt(100)), TRUE>>}

PaceLists ==
    {[i \in 1..Len(recs) |->
         [lap |-> i, time |-> recs[i][1], tyre |-> 0, tyre_age |-> i - 1,
          valid |-> recs[i][2]]] :
        recs \in UNION {[1..n -> PaceRecs] : n \in 0..MaxRecs}}

PaceWindows == {1, 2, 5}

InitTyre ==
    /\ frames = <<>>
    /\ EngineInit

EstimateTyreDegradation ==
    /\ call = NoCall
    /\ \E lt \in RecordLists :
          call' = [fn |-> "estimate_tyre_degradation",
                   lap_times |-> lt,
                   result |-> estimate_tyre_degradation(lt)]
    /\ UNCHANGED frames
    /\ EngineUnchanged

CalculateRollingPace ==
    /\ call = NoCall
    /\ \E lt \in PaceLists, window \in PaceWindows :
          call' = [fn |-> "calculate_rolling_pace",
                   lap_times |-> lt, window |-> window,
                   result |-> calculate_rolling_pace(lt, window)]
    /\ UNCHANGED frames
    /\ EngineUnchanged

NextTyre ==
    \/ EstimateTyreDegradation
    \/ CalculateRollingPace

SpecTyre == InitTyre /\ [][NextTyre]_vars

Estimated == call.fn = "estimate_tyre_degradation"

\* C4: for every list of lap records estimate_tyre_degradation returns
\* remaining_optimal_laps >= 0 and 0 <= deg_rate <= 0.3.
C4_TyreStateClamped ==
    Estimated =>
        /\ call.result.remaining_optimal_laps >= 0
        /\ RLe(RInt(0), call.result.deg_rate)
        /\ RLe(call.result.deg_rate, R(3, 10))

\* C4 witness: a stint whose fitted slope exceeds 0.3 and that has run past
\* its cliff, so both clamps act.
C4_Witness ==
    /\ Estimated
    /\ Len(call.lap_times) >= 2
    /\ RLt(R(3, 10), RegressionSlope(TimedLaps(call.lap_times)))
    /\ call.result.deg_rate = R(3, 10)
    /\ call.result.laps_on_tyre > call.result.estimated_cliff_lap
    /\ call.result.remaining_optimal_laps = 0

\* The trailing records that are all valid and on the last record's compound.
RECURSIVE TrailingStint(_, _)
TrailingStint(lap_times, i) ==
    IF i = 0 THEN <<>>
    ELSE IF lap_times[i].valid /\ lap_times[i].tyre = lap_times[Len(lap_times)].tyre
         THEN TrailingStint(lap_times, i - 1) \o <<lap_times[i]>>
         ELSE <<>>

\* The least-squares slope written over pairs of points: the sum over i < j
\* of (x_i - x_j)(y_i - y_j) divided by the sum of (x_i - x_j)^2.
PairSlope(pts) ==
    LET n == Len(pts)
        dx(i, j) == pts[i].tyre_age - pts[j].tyre_age
        dy(i, j) == RSub(Val(pts[i].time), Val(pts[j].time))
        cov == SumRat([i \in 1..n |->
                          SumRat([j \in 1..n |->
                                     IF i < j THEN RMul(RInt(dx(i, j)), dy(i, j))
                                     ELSE RInt(0)], n)], n)
        var == SumInt([i \in 1..n |->
                          SumInt([j \in 1..n |->
                                     IF i < j THEN dx(i, j) * dx(i, j) ELSE 0], n)], n)
    IN  IF var = 0 THEN RInt(0) ELSE RDiv(cov, RInt(var))

\* C18: the stint used is exactly the maximal run of trailing records that
\* are all valid and on the last record's compound: the backward scan stops
\* at the first record that is invalid or on another compound, and nothing
\* before such a record is counted.
C18_StintIsTrailingRun ==
    Estimated =>
        call.result.laps_on_tyre = Len(TrailingStint(call.lap_times, Len(call.lap_times)))

PaceCalled == call.fn = "calculate_rolling_pace"

\* The times of the valid timed records, in record order.
KeptTimes ==
    LET kept == SelectSeq(call.lap_times, LAMBDA lt : lt.valid /\ lt.time # <<>>)
    IN  [i \in 1..Len(kept) |-> kept[i].time[1]]

\* The k-th smallest of the kept times, by rank.
KthSmallest(k) ==
    LET ts == KeptTimes
    IN  CHOOSE v \in {ts[i] : i \in 1..Len(ts)} :
            /\ Cardinality({i \in 1..Len(ts) : RLt(ts[i], v)}) < k
            /\ k <= Cardinality({i \in 1..Len(ts) : RLe(ts[i], v)})

\* The reference: median of all kept times, times above 1.2 of it dropped,
\* the last `window` of the rest averaged.
ReferencePace ==
    LET ts == KeptTimes
        n == Len(ts)
        med == IF n % 2 = 0
               THEN RDiv(RAdd(KthSmallest(n \div 2), KthSmallest((n \div 2) + 1)), RInt(2))
               ELSE KthSmallest((n + 1) \div 2)
        rest == SelectSeq(ts, LAMBDA t : RLe(RMul(RInt(10), t), RMul(RInt(12), med)))
        m == Len(rest)
        w == call.window
        last == IF m <= w THEN rest ELSE [i \in 1..w |-> rest[m - w + i]]
    IN  RDiv(SumRat(last, Len(last)), RInt(Len(last)))

\* C26: calculate_rolling_pace(records, window) is the mean of the last
\* `window` times left after keeping the valid timed records and dropping
\* the times above 1.2 times the median of all kept times, in this order;
\* it is 0.0 without a valid timed record.
C26_RollingPaceReference ==
    PaceCalled =>
        call.result = IF Len(KeptTimes) = 0 THEN RInt(0) ELSE ReferencePace

\* C26 witness: laps of 70, 70 and 100 s with a window of 2: the slow lap is
\* dropped against the median of all three and the pace is 70, where the
\* median of the last two alone (85) would have kept it.
C26_Witness ==
    /\ PaceCalled
    /\ call.window = 2
    /\ KeptTimes = <<RInt(70), RInt(70), RInt(100)>>
    /\ call.result = RInt(70)

CliffBaseline == [c \in 0..4 |-> <<18, 30, 40, 25, 35>>[c + 1]]

\* C11: for a stint with at least two timed valid records deg_rate is the
\* least-squares slope of time against tyre_age clamped to [0, 0.3], and
\* estimated_cliff_lap is the compound's baseline (18, 30, 40, 25, 35) cut by
\* 20% (truncated) when deg_rate > 0.1, by 10% (truncated) when
\* 0.05 < deg_rate <= 0.1, and left alone otherwise; times 71..75 at ages
\* 0..4 give slope 1.0, deg_rate 0.3 and the 20% cut.
C11_CliffFromDegRate ==
    Estimated =>
        LET lt == call.lap_times
            pts == TimedLaps(TrailingStint(lt, Len(lt)))
            slope == PairSlope(pts)
            deg == IF RLt(slope, RInt(0)) THEN RInt(0)
                   ELSE IF RLt(R(3, 10), slope) THEN R(3, 10) ELSE slope
            res == call.result
        IN  /\ (Len(pts) >= 2 /\ res.compound \in 0..4) =>
                  /\ res.deg_rate = deg
                  /\ res.estimated_cliff_lap =
                        IF RLt(R(1, 10), deg)
                        THEN (CliffBaseline[res.compound] * 8) \div 10
                        ELSE IF RLt(R(1, 20), deg)
                             THEN (CliffBaseline[res.compound] * 9) \div 10
                             ELSE CliffBaseline[res.compound]
            /\ \A c \in 0..4 :
                  lt = LinearStint(5, c, 71, RInt(1)) =>
                      /\ slope = RInt(1)
                      /\ res.deg_rate = R(3, 10)
                      /\ res.estimated_cliff_lap = (CliffBaseline[c] * 8) \div 10

\* C11 witness: a medium stint whose slope is exactly 0.1, the upper edge of
\* the 10% band, so the cliff is 27 and not 24.
C11_Witness ==
    /\ Estimated
    /\ Len(call.lap_times) >= 2
    /\ PairSlope(TimedLaps(TrailingStint(call.lap_times, Len(call.lap_times)))) = R(1, 10)
    /\ call.result.compound = 1
    /\ call.result.deg_rate = R(1, 10)
    /\ call.result.estimated_cliff_lap = 27

(***************************************************************************)
(* adjust_probability_for_gap.                                             *)
(***************************************************************************)
\* A slip of GapPassThrough: the laps_remaining guard is missing.
GapPassThrough_NoLapsGuard(base_prob, gap_to_leader, laps_remaining) ==
    \/ RLe(base_prob, RInt(0))
    \/ RLe(gap_to_leader, RInt(0))

\* The early returns: non-positive base, no laps remaining, or leading.
GapPassThrough(base_prob, gap_to_leader, laps_remaining) ==
    \/ RLe(base_prob, RInt(0))
    \/ laps_remaining <= 0
    \/ RLe(gap_to_leader, RInt(0))

\* A slip of GapAdjustment: the branch boundary is <= 0.5 instead of < 0.5.
GapAdjustment_Inclusive(catchability) ==
    IF RLe(catchability, R(1, 2))
    THEN RMul(catchability, R(1, 2))
    ELSE RAdd(R(1, 2), RMul(RSub(catchability, R(1, 2)), R(1, 2)))

\* The scaling factor applied for a catchability ratio.
GapAdjustment(catchability) ==
    IF RLt(catchability, R(1, 2))
    THEN RMul(catchability, R(1, 2))
    ELSE RAdd(R(1, 2), RMul(RSub(catchability, R(1, 2)), R(1, 2)))

adjust_probability_for_gap(base_prob, gap_to_leader, laps_remaining, pace_delta) ==
    IF GapPassThrough(base_prob, gap_to_leader, laps_remaining)
    THEN base_prob
    ELSE LET max_closeable == RMul(pace_delta, RInt(laps_remaining))
         IN  IF RLe(max_closeable, RInt(0))
             THEN RMul(base_prob, R(1, 10))
             ELSE LET catchability == RMin(RInt(1), RDiv(max_closeable, gap_to_leader))
                  IN  RMul(base_prob, GapAdjustment(catchability))

(***************************************************************************)
(* calculate_pit_window and get_pit_recommendation.  A pit window is a     *)
(* pair of optional laps; a reason string built with an f-string is the    *)
(* sequence of its literal parts and the integers formatted into it.       *)
(***************************************************************************)
NoWindow == <<None, None>>

\* A slip of PitSuppressed: the early bound is < 5 instead of <= 5.
PitSuppressed_StrictEarly(optimal_pit_lap, total_laps) ==
    \/ optimal_pit_lap < 5
    \/ optimal_pit_lap >= total_laps - 3

\* The two reasons for which no window is returned once total_laps > 0.
PitSuppressed(optimal_pit_lap, total_laps) ==
    \/ optimal_pit_lap <= 5
    \/ optimal_pit_lap >= total_laps - 3

\* A slip of calculate_pit_window: the window may run to the last lap.
calculate_pit_window_ToLastLap(tyre_state, current_lap, total_laps, buffer_laps) ==
    IF total_laps <= 0
    THEN NoWindow
    ELSE LET optimal_pit_lap == current_lap + tyre_state.remaining_optimal_laps - buffer_laps
         IN  IF PitSuppressed(optimal_pit_lap, total_laps)
             THEN NoWindow
             ELSE <<Some(Max(1, optimal_pit_lap - buffer_laps)),
                    Some(Min(total_laps, optimal_pit_lap + buffer_laps))>>

calculate_pit_window(tyre_state, current_lap, total_laps, buffer_laps) ==
    IF total_laps <= 0
    THEN NoWindow
    ELSE LET remaining_optimal == tyre_state.remaining_optimal_laps
             optimal_pit_lap == current_lap + remaining_optimal - buffer_laps
         IN  IF PitSuppressed(optimal_pit_lap, total_laps)
             THEN NoWindow
             ELSE LET window_start == Max(1, optimal_pit_lap - buffer_laps)
                      window_end == Min(total_laps - 2, optimal_pit_lap + buffer_laps)
                  IN  <<Some(window_start), Some(window_end)>>

\* A slip of InWindowDecision: the undercut test comes before the degradation test.
InWindowDecision_UndercutFirst(current_lap, window_start, window_end, tyre_state, gap_behind, is_losing_time) ==
    IF tyre_state.remaining_optimal_laps <= 2
    THEN <<TRUE, <<"PIT NOW - Tyre cliff imminent">>>>
    ELSE IF RLt(gap_behind, RInt(2)) /\ current_lap >= window_start
    THEN <<TRUE, <<"PIT NOW - Undercut threat">>>>
    ELSE IF is_losing_time /\ RLt(R(15, 100), tyre_state.deg_rate)
    THEN <<TRUE, <<"PIT NOW - High degradation">>>>
    ELSE <<FALSE, <<"In window (lap ", window_start, "-", window_end, ")">>>>

\* The decision once current_lap lies inside the window.
InWindowDecision(current_lap, window_start, window_end, tyre_state, gap_behind, is_losing_time) ==
    IF tyre_state.remaining_optimal_laps <= 2
    THEN <<TRUE, <<"PIT NOW - Tyre cliff imminent">>>>
    ELSE IF is_losing_time /\ RLt(R(15, 100), tyre_state.deg_rate)
    THEN <<TRUE, <<"PIT NOW - High degradation">>>>
    ELSE IF RLt(gap_behind, RInt(2)) /\ current_lap >= window_start
    THEN <<TRUE, <<"PIT NOW - Undercut threat">>>>
    ELSE <<FALSE, <<"In window (lap ", window_start, "-", window_end, ")">>>>

\* A slip of get_pit_recommendation: a lap past the window is treated as in it.
get_pit_recommendation_NoPastCheck(current_lap, pit_window, tyre_state, gap_behind, is_losing_time) ==
    LET window_start == pit_window[1]
        window_end == pit_window[2]
    IN  IF IsNone(window_start) \/ IsNone(window_end)
        THEN <<FALSE, <<"No pit window">>>>
        ELSE IF current_lap < Val(window_start)
        THEN <<FALSE, <<"Window in ", Val(window_start) - current_lap, " laps">>>>
        ELSE InWindowDecision(current_lap, Val(window_start), Val(window_end),
                              tyre_state, gap_behind, is_losing_time)

get_pit_recommendation(current_lap, pit_window, tyre_state, gap_behind, is_losing_time) ==
    LET window_start == pit_window[1]
        window_end == pit_window[2]
    IN  IF IsNone(window_start) \/ IsNone(window_end)
        THEN <<FALSE, <<"No pit window">>>>
        ELSE IF current_lap < Val(window_start)
        THEN <<FALSE, <<"Window in ", Val(window_start) - current_lap, " laps">>>>
        ELSE IF current_lap > Val(window_end)
        THEN <<FALSE, <<"Past window - stay out">>>>
        ELSE InWindowDecision(current_lap, Val(window_start), Val(window_end),
                              tyre_state, gap_behind, is_losing_time)

(***************************************************************************)
(* compare_pit_strategies.  deg_rate * laps_remaining / 0.1 is taken as an  *)
(* exact quotient before int() truncates it.                               *)
(***************************************************************************)
Strategy(strategy, predicted_finish, confidence) ==
    [strategy |-> strategy, predicted_finish |-> predicted_finish,
     confidence |-> confidence]

\* A slip of ClampFinish: the finish is not capped at the field size.
ClampFinish_NoCeiling(total_drivers, finish) == Max(1, finish)

\* max(1, min(total_drivers, finish))
ClampFinish(total_drivers, finish) == Max(1, Min(total_drivers, finish))

\* A slip of PitLaterOffered: offered from 8 laps remaining on.
PitLaterOffered_FromEight(laps_remaining) == laps_remaining >= 8

\* Strategy 2 is considered: if laps_remaining > 8
PitLaterOffered(laps_remaining) == laps_remaining > 8

\* Strategy 3 is considered: if laps_remaining < 15
NoStopOffered(laps_remaining) == laps_remaining < 15

\* strategies.sort(key=predicted_finish): a stable sort, by insertion.
RECURSIVE SortByFinish(_)
SortByFinish(strategies) ==
    IF Len(strategies) <= 1 THEN strategies
    ELSE LET n == Len(strategies)
             x == strategies[n]
             sorted == SortByFinish(SubSeq(strategies, 1, n - 1))
             before == SelectSeq(sorted, LAMBDA s : s.predicted_finish <= x.predicted_finish)
             after == SelectSeq(sorted, LAMBDA s : s.predicted_finish > x.predicted_finish)
         IN  before \o <<x>> \o after

compare_pit_strategies(current_lap, laps_remaining, tyre_state, position, total_drivers) ==
    LET pit_loss_positions == 2
        tyre_gain == Min(3, laps_remaining \div 10)
        pit_now == <<Strategy("Pit now",
                        ClampFinish(total_drivers, position + pit_loss_positions - tyre_gain),
                        IF tyre_state.remaining_optimal_laps < 10 THEN R(6, 10) ELSE R(4, 10))>>
        pit_later ==
            IF PitLaterOffered(laps_remaining)
            THEN <<Strategy("Pit in 5 laps",
                       ClampFinish(total_drivers,
                                   position + pit_loss_positions - tyre_gain - 1),
                       R(5, 10))>>
            ELSE <<>>
        deg_penalty == RTrunc(RDiv(RMul(tyre_state.deg_rate, RInt(laps_remaining)),
                                   R(1, 10)))
        no_stop ==
            IF NoStopOffered(laps_remaining)
            THEN <<Strategy("No stop",
                       ClampFinish(total_drivers, position + deg_penalty),
                       IF tyre_state.remaining_optimal_laps > laps_remaining
                       THEN R(7, 10) ELSE R(3, 10))>>
            ELSE <<>>
    IN  SortByFinish(pit_now \o pit_later \o no_stop)

(***************************************************************************)
(* adjust_probability_for_tyres.                                           *)
(***************************************************************************)
\* A slip of TyreAgeFactor: the fresh-tyre bonus doubles the probability.
TyreAgeFactor_Double(tyre_age_diff) ==
    IF tyre_age_diff > 10 THEN RInt(2)
    ELSE IF tyre_age_diff > 5 THEN R(11, 10)
    ELSE IF tyre_age_diff < -10 THEN R(8, 10)
    ELSE IF tyre_age_diff < -5 THEN R(9, 10)
    ELSE RInt(1)

\* Fresh tyre advantage, from leader_tyre_age - my_tyre_age.
TyreAgeFactor(tyre_age_diff) ==
    IF tyre_age_diff > 10 THEN R(12, 10)
    ELSE IF tyre_age_diff > 5 THEN R(11, 10)
    ELSE IF tyre_age_diff < -10 THEN R(8, 10)
    ELSE IF tyre_age_diff < -5 THEN R(9, 10)
    ELSE RInt(1)

\* Compound advantage, from my_compound - leader_compound.
CompoundFactor(compound_diff) ==
    IF compound_diff > 0 THEN R(105, 100)
    ELSE IF compound_diff < 0 THEN R(95, 100)
    ELSE RInt(1)

adjust_probability_for_tyres(prob, my_tyre_age, leader_tyre_age, my_compound, leader_compound) ==
    IF RLe(prob, RInt(0))
    THEN prob
    ELSE LET adjustment == RMul(TyreAgeFactor(leader_tyre_age - my_tyre_age),
                                CompoundFactor(my_compound - leader_compound))
             adjusted_prob == RMul(prob, adjustment)
         IN  RMin(RInt(1), RMax(RInt(0), adjusted_prob))

(***************************************************************************)
(* calculate_overtake_probability.                                         *)
(***************************************************************************)
\* The chance of catching within laps_to_consider laps, before the DRS bonus.
CatchProbability(gap_seconds, pace_delta, laps_to_consider) ==
    LET laps_to_catch == RDiv(gap_seconds, pace_delta)
    IN  IF RLt(RInt(laps_to_consider), laps_to_catch) THEN R(1, 10)
        ELSE IF RLe(laps_to_catch, RInt(1)) THEN R(8, 10)
        ELSE RSub(R(8, 10),
                  RDiv(RMul(R(7, 10), RSub(laps_to_catch, RInt(1))),
                       RInt(laps_to_consider - 1)))

\* DRS bonus: min(0.95, base_prob * 1.3)
DrsBonus(base_prob, drs_available) ==
    IF drs_available THEN RMin(R(95, 100), RMul(base_prob, R(13, 10))) ELSE base_prob

\* A slip of calculate_overtake_probability: the early returns pass through
\* the DRS bonus as well.
calculate_overtake_probability_DrsOnFloor(gap_seconds, pace_delta, drs_available, laps_to_consider) ==
    DrsBonus(IF RLe(gap_seconds, RInt(0)) THEN RInt(0)
             ELSE IF RLe(pace_delta, RInt(0)) THEN R(1, 100)
             ELSE CatchProbability(gap_seconds, pace_delta, laps_to_consider),
             drs_available)

calculate_overtake_probability(gap_seconds, pace_delta, drs_available, laps_to_consider) ==
    IF RLe(gap_seconds, RInt(0)) THEN RInt(0)
    ELSE IF RLe(pace_delta, RInt(0)) THEN R(1, 100)
    ELSE DrsBonus(CatchProbability(gap_seconds, pace_delta, laps_to_consider),
                  drs_available)

(***************************************************************************)
(* detect_danger_zones.  Distances are exact rationals, in metres.          *)
(***************************************************************************)
\* The first driver other than driver_code, in dict order, whose position is
\* my_position + 1: its index, or 0.
RECURSIVE CarBehindIndex(_, _, _, _)
CarBehindIndex(drivers, driver_code, my_position, i) ==
    IF i > Len(drivers) THEN 0
    ELSE IF drivers[i].code # driver_code
            /\ Get(drivers[i].data, "position", 20) = my_position + 1
         THEN i
         ELSE CarBehindIndex(drivers, driver_code, my_position, i + 1)

\* gap_seconds = gap_meters / 55.56 if gap_meters > 0 else 0
DangerGapSeconds(gap_meters) ==
    IF RLt(RInt(0), gap_meters) THEN RDiv(gap_meters, R(5556, 100)) ELSE RInt(0)

\* A slip of DangerLevel: the three limits are exclusive.
DangerLevel_Exclusive(gap_seconds, danger_threshold, car_behind_code) ==
    IF RLt(gap_seconds, RMul(danger_threshold, R(1, 2)))
    THEN <<RInt(1), Some(car_behind_code)>>
    ELSE IF RLt(gap_seconds, danger_threshold)
    THEN <<R(1, 2), Some(car_behind_code)>>
    ELSE IF RLt(gap_seconds, RMul(danger_threshold, RInt(2)))
    THEN <<R(2, 10), Some(car_behind_code)>>
    ELSE <<RInt(0), None>>

\* Determine danger level from the gap to the car behind.
DangerLevel(gap_seconds, danger_threshold, car_behind_code) ==
    IF RLe(gap_seconds, RMul(danger_threshold, R(1, 2)))
    THEN <<RInt(1), Some(car_behind_code)>>
    ELSE IF RLe(gap_seconds, danger_threshold)
    THEN <<R(1, 2), Some(car_behind_code)>>
    ELSE IF RLe(gap_seconds, RMul(danger_threshold, RInt(2)))
    THEN <<R(2, 10), Some(car_behind_code)>>
    ELSE <<RInt(0), None>>

detect_danger_zones(frame_data, driver_code, models, danger_threshold) ==
    LET drivers == Get(frame_data, "drivers", <<>>)
        driver_data == IF HasDriver(drivers, driver_code)
                       THEN Some(DriverData(drivers, driver_code)) ELSE None
    IN  IF IsNone(driver_data) \/ DOMAIN Val(driver_data) = {}
        THEN <<RInt(0), None>>
        ELSE LET my_position == Get(Val(driver_data), "position", 20)
                 my_dist == Get(Val(driver_data), "dist", RInt(0))
                 ci == CarBehindIndex(drivers, driver_code, my_position, 1)
             IN  IF ci = 0 \/ drivers[ci].code = ""
                 THEN <<RInt(0), None>>
                 ELSE LET car_behind_dist == Get(drivers[ci].data, "dist", RInt(0))
                          gap_meters == RSub(my_dist, car_behind_dist)
                      IN  DangerLevel(DangerGapSeconds(gap_meters), danger_threshold,
                                      drivers[ci].code)

(***************************************************************************)
(* Calls of the pure functions, each applied once to arguments drawn from  *)
(* small sets.                                                             *)
(***************************************************************************)
MaxLap == 20

BaseProbs == {R(-1, 10), RInt(0), R(1, 20), R(1, 4), R(2, 5)}
Gaps == {RInt(-1), RInt(0), R(1, 2), RInt(1), RInt(2), RInt(10)}
LapsRemaining == {-1, 0, 1, 2, 5, 20}
PaceDeltas == {R(-1, 2), RInt(0), R(1, 2), RInt(1)}
TotalLaps == {-1, 0, 10, 20, 50}
BufferLaps == {0, 3, 5}
RemainingLaps == {0, 1, 2, 3, 5, 8, 14, 18}
DegRates == {RInt(0), R(15, 100), R(1, 5), R(3, 10)}
GapsBehind == {R(1, 2), RInt(2), RInt(3)}
Windows == {NoWindow, <<Some(5), None>>, <<None, Some(8)>>, <<Some(5), Some(8)>>,
            <<Some(8), Some(8)>>}
WindowLaps == {3, 5, 6, 8, 9}
LookAheads == {-1, 0, 1, 5}
TyreProbs == BaseProbs \cup {R(9, 10)}
TyreAges == {0, 4, 5, 6, 10, 11, 16}
Compounds == 0..2
StrategyLaps == {5, 30}
StrategyLapsRemaining == {-1, 0, 7, 8, 9, 10, 14, 15, 16, 30, 45}
StrategyRemaining == {0, 5, 12, 20}
Positions == {1, 2, 10, 20}
DriverCounts == {0, 1, 2, 20}
\* The subject of detect_danger_zones, its possible positions and distances
\* (metres ahead of the origin), and the thresholds in seconds.
Subject == "VER"
SubjectPositions == {1, 19}
SubjectDists == {RInt(-10), RInt(0), R(4167, 100), R(4168, 100), R(8334, 100),
                 R(8335, 100), R(16668, 100), R(16669, 100), RInt(500)}
Thresholds == {R(3, 2), RInt(0), RInt(-1)}
SubjectEntries ==
    {<<>>, <<[code |-> Subject, data |-> <<>>]>>} \cup
    {<<[code |-> Subject, data |-> [position |-> p, dist |-> d]]>> :
        p \in SubjectPositions, d \in SubjectDists}
\* Another car: absent, without state, or at position 2 or 3.
OtherEntries(code) ==
    {<<>>, <<[code |-> code, data |-> <<>>]>>} \cup
    {<<[code |-> code, data |-> [position |-> p, dist |-> d]]>> :
        p \in {2, 3}, d \in {RInt(0), RInt(100)}}
DangerFrames ==
    {[t |-> RInt(0), drivers |-> a \o b \o c] :
        a \in OtherEntries("HAM"), b \in SubjectEntries, c \in OtherEntries("LEC")}

\* A tyre state as estimate_tyre_degradation builds it, on MEDIUM tyres.
TyreStateWith(remaining, deg_rate) ==
    TyreState(1, Max(0, 30 - remaining), deg_rate, 30, remaining)

InitCalls ==
    /\ frames = <<>>
    /\ EngineInit

AdjustProbabilityForGap ==
    /\ call = NoCall
    /\ \E base_prob \in BaseProbs, gap_to_leader \in Gaps,
          laps_remaining \in LapsRemaining, pace_delta \in PaceDeltas :
          call' = [fn |-> "adjust_probability_for_gap",
                   base_prob |-> base_prob, gap_to_leader |-> gap_to_leader,
                   laps_remaining |-> laps_remaining, pace_delta |-> pace_delta,
                   result |-> adjust_probability_for_gap(base_prob, gap_to_leader,
                                                          laps_remaining, pace_delta)]
    /\ UNCHANGED frames
    /\ EngineUnchanged

CalculatePitWindow ==
    /\ call = NoCall
    /\ \E remaining \in RemainingLaps, current_lap \in 1..MaxLap,
          total_laps \in TotalLaps, buffer_laps \in BufferLaps :
          LET tyre_state == TyreStateWith(remaining, RInt(0))
          IN  call' = [fn |-> "calculate_pit_window",
                       tyre_state |-> tyre_state, current_lap |-> current_lap,
                       total_laps |-> total_laps, buffer_laps |-> buffer_laps,
                       result |-> calculate_pit_window(tyre_state, current_lap,
                                                       total_laps, buffer_laps)]
    /\ UNCHANGED frames
    /\ EngineUnchanged

GetPitRecommendation ==
    /\ call = NoCall
    /\ \E current_lap \in WindowLaps, pit_window \in Windows,
          remaining \in RemainingLaps, deg_rate \in DegRates,
          gap_behind \in GapsBehind, is_losing_time \in BOOLEAN :
          LET tyre_state == TyreStateWith(remaining, deg_rate)
          IN  call' = [fn |-> "get_pit_recommendation",
                       current_lap |-> current_lap, pit_window |-> pit_window,
                       tyre_state |-> tyre_state, gap_behind |-> gap_behind,
                       is_losing_time |-> is_losing_time,
                       result |-> get_pit_recommendation(current_lap, pit_window,
                                      tyre_state, gap_behind, is_losing_time)]
    /\ UNCHANGED frames
    /\ EngineUnchanged

CalculateOvertakeProbability ==
    /\ call = NoCall
    /\ \E gap_seconds \in Gaps, pace_delta \in PaceDeltas,
          drs_available \in BOOLEAN, laps_to_consider \in LookAheads :
          call' = [fn |-> "calculate_overtake_probability",
                   gap_seconds |-> gap_seconds, pace_delta |-> pace_delta,
                   drs_available |-> drs_available,
                   laps_to_consider |-> laps_to_consider,
                   result |-> calculate_overtake_probability(gap_seconds, pace_delta,
                                  drs_available, laps_to_consider)]
    /\ UNCHANGED frames
    /\ EngineUnchanged

AdjustProbabilityForTyres ==
    /\ call = NoCall
    /\ \E prob \in TyreProbs, my_tyre_age \in TyreAges, leader_tyre_age \in TyreAges,
          my_compound \in Compounds, leader_compound \in Compounds :
          call' = [fn |-> "adjust_probability_for_tyres",
                   prob |-> prob,
                   my_tyre_age |-> my_tyre_age, leader_tyre_age |-> leader_tyre_age,
                   my_compound |-> my_compound, leader_compound |-> leader_compound,
                   result |-> adjust_probability_for_tyres(prob, my_tyre_age,
                                  leader_tyre_age, my_compound, leader_compound)]
    /\ UNCHANGED frames
    /\ EngineUnchanged

ComparePitStrategies ==
    /\ call = NoCall
    /\ \E current_lap \in StrategyLaps, laps_remaining \in StrategyLapsRemaining,
          remaining \in StrategyRemaining, deg_rate \in DegRates,
          position \in Positions, total_drivers \in DriverCounts :
          LET tyre_state == TyreStateWith(remaining, deg_rate)
          IN  call' = [fn |-> "compare_pit_strategies",
                       current_lap |-> current_lap, laps_remaining |-> laps_remaining,
                       tyre_state |-> tyre_state, position |-> position,
                       total_drivers |-> total_drivers,
                       result |-> compare_pit_strategies(current_lap, laps_remaining,
                                      tyre_state, position, total_drivers)]
    /\ UNCHANGED frames
    /\ EngineUnchanged

DetectDangerZones ==
    /\ call = NoCall
    /\ \E frame_data \in DangerFrames, danger_threshold \in Thresholds :
          call' = [fn |-> "detect_danger_zones",
                   frame_data |-> frame_data, driver_code |-> Subject,
                   danger_threshold |-> danger_threshold,
                   result |-> detect_danger_zones(frame_data, Subject, None,
                                                  danger_threshold)]
    /\ UNCHANGED frames
    /\ EngineUnchanged

NextCalls ==
    \/ AdjustProbabilityForGap
    \/ CalculatePitWindow
    \/ GetPitRecommendation
    \/ CalculateOvertakeProbability
    \/ AdjustProbabilityForTyres
    \/ ComparePitStrategies
    \/ DetectDangerZones

SpecCalls == InitCalls /\ [][NextCalls]_vars

(***************************************************************************)
(* Properties of the pit-strategy functions.                               *)
(***************************************************************************)
\* C5: calculate_pit_window returns (None, None) whenever total_laps <= 0 or
\* optimal = current_lap + remaining_optimal_laps - buffer_laps is <= 5 or
\* >= total_laps - 3, and a window with both bounds non-null otherwise.
C5_PitWindowSuppression ==
    call.fn = "calculate_pit_window" =>
        LET optimal == call.current_lap + call.tyre_state.remaining_optimal_laps
                          - call.buffer_laps
        IN  IF call.total_laps <= 0 \/ optimal <= 5 \/ optimal >= call.total_laps - 3
            THEN call.result = <<None, None>>
            ELSE Len(call.result[1]) = 1 /\ Len(call.result[2]) = 1

\* C5 witness: the optimal lap is exactly 5, or exactly total_laps - 3 and
\* past lap 5; no window is returned.
C5_Witness ==
    /\ call.fn = "calculate_pit_window"
    /\ call.total_laps > 0
    /\ LET optimal == call.current_lap + call.tyre_state.remaining_optimal_laps
                         - call.buffer_laps
       IN  optimal = 5 /\ optimal < call.total_laps - 3
    /\ call.result = <<None, None>>

Recommended == call.fn = "get_pit_recommendation"

InWindow ==
    /\ Recommended
    /\ Len(call.pit_window[1]) = 1 /\ Len(call.pit_window[2]) = 1
    /\ call.pit_window[1][1] <= call.current_lap
    /\ call.current_lap <= call.pit_window[2][1]

\* C6: inside the window the decision is, in this order: remaining optimal
\* laps <= 2 gives "Tyre cliff imminent"; else losing time with deg_rate >
\* 0.15 gives "High degradation" (even with gap_behind < 2.0); else
\* gap_behind < 2.0 gives "Undercut threat"; else False with an in-window
\* reason.
C6_InWindowPriority ==
    InWindow =>
        IF call.tyre_state.remaining_optimal_laps <= 2
        THEN call.result = <<TRUE, <<"PIT NOW - Tyre cliff imminent">>>>
        ELSE IF call.is_losing_time /\ RLt(R(15, 100), call.tyre_state.deg_rate)
        THEN call.result = <<TRUE, <<"PIT NOW - High degradation">>>>
        ELSE IF RLt(call.gap_behind, RInt(2))
        THEN call.result = <<TRUE, <<"PIT NOW - Undercut threat">>>>
        ELSE /\ call.result[1] = FALSE
             /\ call.result[2][1] = "In window (lap "

\* C6 witness: in the window, off the cliff, losing time on high degradation
\* with the car behind inside 2.0 s: "High degradation" wins over "Undercut".
C6_Witness ==
    /\ InWindow
    /\ call.tyre_state.remaining_optimal_laps > 2
    /\ call.is_losing_time /\ RLt(R(15, 100), call.tyre_state.deg_rate)
    /\ RLt(call.gap_behind, RInt(2))
    /\ call.result = <<TRUE, <<"PIT NOW - High degradation">>>>

\* C23: should_pit is True only with a window and window_start <=
\* current_lap <= window_end; without a window the answer is (False, "No pit
\* window"), before the window False with window_start - current_lap laps
\* to go, past it (False, "Past window - stay out"), whatever the tyre
\* state, gap_behind and is_losing_time.
C23_NoPitOutsideWindow ==
    Recommended =>
        LET ws == call.pit_window[1]
            we == call.pit_window[2]
        IN  /\ call.result[1] => InWindow
            /\ (ws = <<>> \/ we = <<>>) => call.result = <<FALSE, <<"No pit window">>>>
            /\ (ws # <<>> /\ we # <<>> /\ call.current_lap < ws[1]) =>
                  call.result = <<FALSE, <<"Window in ", ws[1] - call.current_lap, " laps">>>>
            /\ (ws # <<>> /\ we # <<>> /\ call.current_lap > we[1]) =>
                  call.result = <<FALSE, <<"Past window - stay out">>>>

\* C23 witness: past the window with the cliff two laps or less away, the
\* car behind inside 2.0 s and time being lost: still no stop.
C23_Witness ==
    /\ Recommended
    /\ call.pit_window[1] # <<>> /\ call.pit_window[2] # <<>>
    /\ call.current_lap > call.pit_window[2][1]
    /\ call.tyre_state.remaining_optimal_laps <= 2
    /\ RLt(call.gap_behind, RInt(2))
    /\ call.is_losing_time
    /\ call.result = <<FALSE, <<"Past window - stay out">>>>

WindowReturned ==
    /\ call.fn = "calculate_pit_window"
    /\ call.result # <<None, None>>

\* C24: a window returned for buffer_laps >= 0 is max(1, optimal -
\* buffer_laps) to min(total_laps - 2, optimal + buffer_laps) with optimal =
\* current_lap + remaining_optimal_laps - buffer_laps, and 1 <= window_start
\* <= optimal <= window_end <= total_laps - 2.
C24_WindowAroundOptimal ==
    (WindowReturned /\ call.buffer_laps >= 0) =>
        LET optimal == call.current_lap + call.tyre_state.remaining_optimal_laps
                          - call.buffer_laps
            lo == optimal - call.buffer_laps
            hi == optimal + call.buffer_laps
            ws == call.result[1][1]
            we == call.result[2][1]
        IN  /\ ws = (IF lo < 1 THEN 1 ELSE lo)
            /\ we = (IF hi > call.total_laps - 2 THEN call.total_laps - 2 ELSE hi)
            /\ 1 <= ws /\ ws <= optimal /\ optimal <= we /\ we <= call.total_laps - 2

\* C24 witness: a window cut short at total_laps - 2.
C24_Witness ==
    /\ WindowReturned
    /\ call.buffer_laps > 0
    /\ call.result[2][1] = call.total_laps - 2
    /\ call.result[2][1] < call.current_lap + call.tyre_state.remaining_optimal_laps
    /\ call.result[1][1] < call.result[2][1]

(***************************************************************************)
(* Properties of adjust_probability_for_gap.                               *)
(***************************************************************************)
GapAdjusted == call.fn = "adjust_probability_for_gap"

\* C9: adjust_probability_for_gap returns base_prob unchanged whenever
\* gap_to_leader <= 0, base_prob <= 0 or laps_remaining <= 0.
C9_GapPassThrough ==
    (GapAdjusted /\ (\/ RLe(call.gap_to_leader, RInt(0))
                     \/ RLe(call.base_prob, RInt(0))
                     \/ call.laps_remaining <= 0))
        => call.result = call.base_prob

\* C9 witness: no laps remain for a driver behind the leader with a positive
\* base probability.
C9_Witness ==
    /\ GapAdjusted
    /\ call.laps_remaining <= 0
    /\ RLt(RInt(0), call.gap_to_leader)
    /\ RLt(RInt(0), call.base_prob)
    /\ call.result = call.base_prob

\* The general statement of C10.
C10_General ==
    (/\ GapAdjusted
     /\ RLt(RInt(0), call.base_prob)
     /\ call.laps_remaining > 0
     /\ RLt(RInt(0), call.gap_to_leader)
     /\ RLt(RInt(0), RMul(call.pace_delta, RInt(call.laps_remaining))))
        => LET closeable == RMul(call.pace_delta, RInt(call.laps_remaining))
               ratio == RDiv(closeable, call.gap_to_leader)
               c == IF RLt(ratio, RInt(1)) THEN ratio ELSE RInt(1)
               f == IF RLt(c, R(1, 2))
                    THEN R(c.n, 2 * c.d)
                    ELSE R(2 * c.n + c.d, 4 * c.d)
           IN  call.result = R(call.base_prob.n * f.n, call.base_prob.d * f.d)

\* C10 witness: catchability exactly 0.5 (gap 2, 2 laps, pace delta 0.5), the
\* boundary between the two branches: the factor is 0.5.
C10_Witness ==
    /\ GapAdjusted
    /\ call.base_prob = R(1, 4)
    /\ call.gap_to_leader = RInt(2)
    /\ call.laps_remaining = 2
    /\ call.pace_delta = R(1, 2)
    /\ call.result = R(1, 8)

\* The scenario of C10: gap 10, 2 laps, pace delta 0.5 gives c = 0.1.
C10_Scenario ==
    (/\ GapAdjusted
     /\ call.gap_to_leader = RInt(10)
     /\ call.laps_remaining = 2
     /\ call.pace_delta = R(1, 2)
     /\ RLt(RInt(0), call.base_prob))
        => call.result = RMul(call.base_prob, R(5, 100))

\* C10: for base_prob > 0, laps_remaining > 0, gap_to_leader > 0 and
\* pace_delta * laps_remaining > 0 the result is base_prob * f(c) with
\* c = min(1, pace_delta * laps_remaining / gap_to_leader), f(c) = 0.5 c for
\* c < 0.5 and 0.5 + 0.5 (c - 0.5) otherwise; gap 10, 2 laps and pace delta
\* 0.5 give base_prob * 0.05.
C10_GapScaling == C10_General /\ C10_Scenario

(***************************************************************************)
(* Properties of compare_pit_strategies.                                   *)
(***************************************************************************)
StrategiesCompared == call.fn = "compare_pit_strategies"

Offered == {call.result[i].strategy : i \in 1..Len(call.result)}

\* C20 as stated: "Pit now" is always among the scenarios, "Pit in 5 laps"
\* exactly when laps_remaining >= 8 and "No stop" exactly when
\* laps_remaining < 15, for every position, tyre state and driver count.
C20_ScenariosOffered ==
    StrategiesCompared =>
        /\ "Pit now" \in Offered
        /\ "Pit in 5 laps" \in Offered <=> call.laps_remaining >= 8
        /\ "No stop" \in Offered <=> call.laps_remaining < 15

\* C20 amended: "Pit now" is always among the scenarios, "Pit in 5 laps"
\* exactly when laps_remaining > 8 (9 or more) and "No stop" exactly when
\* laps_remaining < 15, each scenario once.
C20_ScenariosOfferedAbove8 ==
    StrategiesCompared =>
        /\ "Pit now" \in Offered
        /\ "Pit in 5 laps" \in Offered <=> call.laps_remaining > 8
        /\ "No stop" \in Offered <=> call.laps_remaining < 15
        /\ Len(call.result) = Cardinality(Offered)
        /\ Offered \subseteq {"Pit now", "Pit in 5 laps", "No stop"}

\* C20 witness: with exactly 8 laps remaining only "Pit now" and "No stop"
\* are compared.
C20_Witness ==
    /\ StrategiesCompared
    /\ call.laps_remaining = 8
    /\ Len(call.result) = 2
    /\ Offered = {"Pit now", "No stop"}

\* C21: the returned list is in non-decreasing order of predicted_finish,
\* and with total_drivers >= 1 every predicted_finish lies in
\* 1..total_drivers.
C21_SortedAndInField ==
    StrategiesCompared =>
        /\ \A i, j \in 1..Len(call.result) :
              i < j => call.result[i].predicted_finish <= call.result[j].predicted_finish
        /\ call.total_drivers >= 1 =>
              \A i \in 1..Len(call.result) :
                  /\ call.result[i].predicted_finish >= 1
                  /\ call.result[i].predicted_finish <= call.total_drivers

\* C21 witness: three scenarios, the one appended second ranked first, and
\* the no-stop finish capped at the field size.
C21_Witness ==
    /\ StrategiesCompared
    /\ call.total_drivers = 20
    /\ Len(call.result) = 3
    /\ call.result[1].strategy = "Pit in 5 laps"
    /\ call.result[3].strategy = "No stop"
    /\ call.result[3].predicted_finish = 20
    /\ call.position < 20
    /\ call.result[1].predicted_finish < call.result[2].predicted_finish

(***************************************************************************)
(* Properties of detect_danger_zones.                                      *)
(***************************************************************************)
DangerChecked == call.fn = "detect_danger_zones"

\* The cars at the subject's position + 1, by index in the frame.
CarsBehind ==
    LET ds == call.frame_data.drivers
        me == DriverData(ds, Subject)
    IN  {j \in 1..Len(ds) :
            /\ ds[j].code # Subject
            /\ (IF "position" \in DOMAIN ds[j].data THEN ds[j].data["position"] ELSE 20)
                  = me.position + 1}

SubjectHasState ==
    /\ HasDriver(call.frame_data.drivers, Subject)
    /\ DOMAIN DriverData(call.frame_data.drivers, Subject) # {}

\* C25: the car taken is the one at the subject's position + 1; the gap is
\* max(0, subject distance - that car's distance) / 55.56; the level is 1.0
\* for gap <= 0.5 threshold, 0.5 for gap <= threshold, 0.2 for gap <= 2
\* threshold, else 0.0; with a positive threshold a threat is reported
\* exactly when the level is above 0, and it is always that car; a missing
\* subject or no car at position + 1 gives (0.0, None).
C25_DangerLevels ==
    DangerChecked =>
        IF ~SubjectHasState \/ CarsBehind = {}
        THEN call.result = <<RInt(0), None>>
        ELSE LET ds == call.frame_data.drivers
                 j == CHOOSE k \in CarsBehind : \A m \in CarsBehind : k <= m
                 behind == IF "dist" \in DOMAIN ds[j].data THEN ds[j].data["dist"] ELSE RInt(0)
                 metres == RSub(DriverData(ds, Subject).dist, behind)
                 \* the gap in seconds times 55.56
                 gap == IF RLt(RInt(0), metres) THEN metres ELSE RInt(0)
                 limit == RMul(call.danger_threshold, R(5556, 100))
                 level == IF RLe(RMul(RInt(2), gap), limit) THEN RInt(1)
                          ELSE IF RLe(gap, limit) THEN R(1, 2)
                          ELSE IF RLe(gap, RMul(RInt(2), limit)) THEN R(1, 5)
                          ELSE RInt(0)
             IN  /\ call.result[1] = level
                 /\ RLt(RInt(0), call.danger_threshold) =>
                       (call.result[2] # None <=> RLt(RInt(0), level))
                 /\ call.result[2] # None => call.result[2] = Some(ds[j].code)

\* C25 witness: the car behind is exactly one threshold (1.5 s, 83.34 m)
\* back, and is reported at level 0.5.
C25_Witness ==
    /\ DangerChecked
    /\ SubjectHasState
    /\ CarsBehind # {}
    /\ call.danger_threshold = R(3, 2)
    /\ DriverData(call.frame_data.drivers, Subject).dist = R(8334, 100)
    /\ call.result = <<R(1, 2), Some("HAM")>>

(***************************************************************************)
(* Properties of adjust_probability_for_tyres.                             *)
(***************************************************************************)
TyresAdjusted == call.fn = "adjust_probability_for_tyres"

\* C19: a positive prob is multiplied by 1.2 when the leader's tyres are 10
\* or more laps older, by 1.1 when 5 to 9 laps older, by 0.8 when the own
\* tyres are 10 or more laps older, by 0.9 when 5 to 9 laps older and by 1.0
\* otherwise, differences of exactly 10 and 5 included; then by 1.05 on a
\* harder compound than the leader's or 0.95 on a softer one; the product is
\* capped at 1.
C19_TyreAgeThresholds ==
    (TyresAdjusted /\ call.prob.n > 0) =>
        LET lead == call.leader_tyre_age - call.my_tyre_age
            mine == call.my_tyre_age - call.leader_tyre_age
            age == IF lead >= 10 THEN R(12, 10)
                   ELSE IF lead >= 5 THEN R(11, 10)
                   ELSE IF mine >= 10 THEN R(8, 10)
                   ELSE IF mine >= 5 THEN R(9, 10)
                   ELSE RInt(1)
            compound == IF call.my_compound > call.leader_compound THEN R(105, 100)
                        ELSE IF call.my_compound < call.leader_compound THEN R(95, 100)
                        ELSE RInt(1)
        IN  call.result = RMin(RInt(1), RMul(call.prob, RMul(age, compound)))

(***************************************************************************)
(* Properties of calculate_overtake_probability.                           *)
(***************************************************************************)
OvertakeCalled == call.fn = "calculate_overtake_probability"

\* C12: calculate_overtake_probability returns exactly 0.0 whenever
\* gap_seconds <= 0, whatever the pace delta, DRS flag and lookahead, and
\* exactly 0.01 whenever gap_seconds > 0 and pace_delta <= 0, DRS or not.
C12_OvertakeEarlyReturns ==
    OvertakeCalled =>
        /\ call.gap_seconds.n <= 0 => call.result = R(0, 1)
        /\ (call.gap_seconds.n > 0 /\ call.pace_delta.n <= 0) => call.result = R(1, 100)

\* C12 witness: a car behind that is not catching, with DRS available.
C12_Witness ==
    /\ OvertakeCalled
    /\ call.gap_seconds.n > 0
    /\ call.pace_delta.n <= 0
    /\ call.drs_available
    /\ call.result = R(1, 100)

(***************************************************************************)
(* PredictionEngine: base probabilities, the per-driver prediction and     *)
(* calculate_all.  A call that raises returns [ok |-> FALSE, error |-> e]; *)
(* one that returns v returns [ok |-> TRUE, value |-> v].                  *)
(***************************************************************************)
RECURSIVE Pow2(_)
Pow2(k) == IF k <= 0 THEN 1 ELSE 2 * Pow2(k - 1)

\* 0.5 ** k for k >= 0
HalfPow(k) == R(1, Pow2(k))

calculate_base_probability(position, total_drivers) ==
    IF position <= 0 \/ total_drivers <= 0 THEN RInt(0)
    ELSE CASE position = 1 -> R(40, 100)
           [] position = 2 -> R(25, 100)
           [] position = 3 -> R(15, 100)
           [] position = 4 -> R(8, 100)
           [] position = 5 -> R(5, 100)
           [] OTHER -> IF position <= total_drivers
                       THEN RMax(R(1, 1000), RMul(R(5, 100), HalfPow(position - 5)))
                       ELSE RInt(0)

calculate_podium_probability(position, total_drivers) ==
    IF position <= 0 \/ total_drivers <= 0 THEN RInt(0)
    ELSE CASE position = 1 -> R(95, 100)
           [] position = 2 -> R(85, 100)
           [] position = 3 -> R(70, 100)
           [] position = 4 -> R(40, 100)
           [] position = 5 -> R(25, 100)
           [] position = 6 -> R(15, 100)
           [] position = 7 -> R(8, 100)
           [] position = 8 -> R(4, 100)
           [] OTHER -> IF position <= total_drivers
                       THEN RMax(R(1, 1000), RMul(R(4, 100), HalfPow(position - 8)))
                       ELSE RInt(0)

Return(v) == [ok |-> TRUE, value |-> v]
Raise(e) == [ok |-> FALSE, error |-> e]

\* frames[i] for a Python index i: negative indices count from the end.
PyIndex(fs, i) ==
    IF 0 <= i /\ i < Len(fs) THEN Return(fs[i + 1])
    ELSE IF -Len(fs) <= i /\ i < 0 THEN Return(fs[Len(fs) + i + 1])
    ELSE Raise("IndexError")

\* drivers.get(driver_code)
DriverGet(drivers, code) ==
    IF HasDriver(drivers, code) THEN Some(DriverData(drivers, code)) ELSE None

\* A slip of DriverStateMissing: only an absent driver is skipped.
DriverStateMissing_OnlyAbsent(driver_data) == IsNone(driver_data)

\* not driver_data: the driver is absent or its state is an empty dict.
DriverStateMissing(driver_data) ==
    IsNone(driver_data) \/ DOMAIN Val(driver_data) = {}

\* The first driver, in dict order, whose position is 1: its index, or 0.
RECURSIVE LeaderIndex(_, _)
LeaderIndex(drivers, i) ==
    IF i > Len(drivers) THEN 0
    ELSE IF "position" \in DOMAIN drivers[i].data /\ drivers[i].data["position"] = 1
         THEN i
         ELSE LeaderIndex(drivers, i + 1)

\* gap_seconds = gap_meters / 55.56 if gap_meters > 0 else 0
GapSeconds(gap_meters) ==
    IF gap_meters > 0 THEN RDiv(RInt(gap_meters), R(5556, 100)) ELSE RInt(0)

\* A slip of ClampWinProb: the floor of 0.001 is missing.
ClampWinProb_NoFloor(win_prob) == RMin(R(999, 1000), win_prob)

\* win_prob = max(0.001, min(0.999, win_prob))
ClampWinProb(win_prob) == RMax(R(1, 1000), RMin(R(999, 1000), win_prob))

DriverPrediction(driver_code, win, podium, finish) ==
    [driver_code |-> driver_code, win_probability |-> win,
     podium_probability |-> podium, predicted_finish |-> finish,
     pit_window_start |-> None, pit_window_end |-> None,
     should_pit_now |-> FALSE, danger_level |-> RInt(0),
     threat_driver |-> None, confidence |-> R(6, 10)]

\* The win probability of a driver present in the frame's drivers.
RawWinProbability(drivers, driver_code, driver_data, laps_remaining) ==
    LET position == Get(driver_data, "position", 20)
        total_drivers == Len(drivers)
        base == calculate_base_probability(position, total_drivers)
        li == LeaderIndex(drivers, 1)
        has_leader == li > 0
        leader_data == drivers[li].data
        leader_code == drivers[li].code
        gapped ==
            IF has_leader /\ position > 1
            THEN adjust_probability_for_gap(
                     base,
                     GapSeconds(Get(leader_data, "dist", 0) - Get(driver_data, "dist", 0)),
                     laps_remaining, R(1, 2))
            ELSE base
        tyred ==
            IF has_leader /\ leader_code # driver_code
            THEN adjust_probability_for_tyres(
                     gapped,
                     Get(driver_data, "lap", 1) % 20,
                     Get(leader_data, "lap", 1) % 20,
                     Get(driver_data, "tyre", 1),
                     Get(leader_data, "tyre", 1))
            ELSE gapped
    IN  ClampWinProb(tyred)

\* Returns Return(None) for a driver without state, Return(Some(prediction))
\* otherwise; raises IndexError when current_frame_idx is out of range.
calculate_driver_prediction(fs, current_frame_idx, driver_code, laps_remaining) ==
    LET current_frame == PyIndex(fs, current_frame_idx)
    IN  IF ~current_frame.ok THEN current_frame
        ELSE LET drivers == Get(current_frame.value, "drivers", <<>>)
                 driver_data == DriverGet(drivers, driver_code)
             IN  IF DriverStateMissing(driver_data)
                 THEN Return(None)
                 ELSE LET data == Val(driver_data)
                          position == Get(data, "position", 20)
                      IN  Return(Some(DriverPrediction(
                              driver_code,
                              RawWinProbability(drivers, driver_code, data, laps_remaining),
                              calculate_podium_probability(position, Len(drivers)),
                              position)))

RECURSIVE SumWin(_, _)
SumWin(preds, codes) ==
    IF codes = {} THEN RInt(0)
    ELSE LET c == CHOOSE x \in codes : TRUE
         IN  RAdd(preds[c].win_probability, SumWin(preds, codes \ {c}))

\* A slip of NormalizeWin: the podium probabilities are rescaled as well.
NormalizeWin_AlsoPodium(raw_predictions) ==
    LET total_win_prob == SumWin(raw_predictions, DOMAIN raw_predictions)
    IN  IF RLt(RInt(0), total_win_prob)
        THEN [c \in DOMAIN raw_predictions |->
                 [raw_predictions[c] EXCEPT
                     !.win_probability = RDiv(@, total_win_prob),
                     !.podium_probability = RDiv(@, total_win_prob)]]
        ELSE raw_predictions

\* Normalize win probabilities to sum to 1.0; only win_probability changes.
NormalizeWin(raw_predictions) ==
    LET total_win_prob == SumWin(raw_predictions, DOMAIN raw_predictions)
    IN  IF RLt(RInt(0), total_win_prob)
        THEN [c \in DOMAIN raw_predictions |->
                 [raw_predictions[c] EXCEPT
                     !.win_probability = RDiv(@, total_win_prob)]]
        ELSE raw_predictions

\* A slip of calculate_all: the mapping of the previous call is kept and
\* returned again while laps_remaining is the same, whatever the frame.
calculate_all_Memo(fs, current_frame_idx, laps_remaining) ==
    IF call.fn = "calculate_all" /\ call.laps_remaining = laps_remaining
    THEN call.result
    ELSE
        IF Len(fs) = 0 \/ current_frame_idx < 0
        THEN Return(<<>>)
        ELSE LET current_frame == fs[Min(current_frame_idx, Len(fs) - 1) + 1]
                 drivers == Get(current_frame, "drivers", <<>>)
                 preds == [c \in Codes(drivers) |->
                              calculate_driver_prediction(fs, current_frame_idx, c, laps_remaining)]
             IN  IF Len(drivers) = 0
                 THEN Return(<<>>)
                 ELSE IF \E c \in Codes(drivers) : ~preds[c].ok
                 THEN Raise(preds[CHOOSE c \in Codes(drivers) : ~preds[c].ok].error)
                 ELSE LET kept == {c \in Codes(drivers) : ~IsNone(preds[c].value)}
                          raw_predictions == [c \in kept |-> Val(preds[c].value)]
                      IN  Return(NormalizeWin(raw_predictions))

calculate_all(fs, current_frame_idx, laps_remaining) ==
    IF Len(fs) = 0 \/ current_frame_idx < 0
    THEN Return(<<>>)
    ELSE LET current_frame == fs[Min(current_frame_idx, Len(fs) - 1) + 1]
             drivers == Get(current_frame, "drivers", <<>>)
             preds == [c \in Codes(drivers) |->
                          calculate_driver_prediction(fs, current_frame_idx, c, laps_remaining)]
         IN  IF Len(drivers) = 0
             THEN Return(<<>>)
             ELSE IF \E c \in Codes(drivers) : ~preds[c].ok
             THEN Raise(preds[CHOOSE c \in Codes(drivers) : ~preds[c].ok].error)
             ELSE LET kept == {c \in Codes(drivers) : ~IsNone(preds[c].value)}
                      raw_predictions == [c \in kept |-> Val(preds[c].value)]
                  IN  Return(NormalizeWin(raw_predictions))

(***************************************************************************)
(* The engine over a replay.  The frame source materializes the frames,    *)
(* then the engine is called once per update tick with a frame index and   *)
(* the laps remaining.                                                     *)
(***************************************************************************)
MaxReplayFrames == 2

ReplayCodes == <<"VER", "HAM">>
\* Position rank and race distance a driver with state may have.
Standings == [VER |-> {<<1, 5556>>, <<7, 5556>>}, HAM |-> {<<1, 5556>>, <<2, 0>>}]
\* Tyre compound and lap of each driver.
ReplayTyre == [VER |-> 1, HAM |-> 0]
ReplayLap == [VER |-> 12, HAM |-> 1]
TickLapsRemaining == {0, 10, 200}

\* What a frame may hold for one driver: nothing, an empty state, or a state.
DriverEntries(code) ==
    {<<>>, <<[code |-> code, data |-> <<>>]>>} \cup
    {<<[code |-> code,
        data |-> [position |-> st[1], dist |-> st[2],
                  tyre |-> ReplayTyre[code], lap |-> ReplayLap[code]]]>> :
        st \in Standings[code]}

ReplayFrames(t) ==
    {[t |-> RInt(t), drivers |-> a \o b] :
        a \in DriverEntries(ReplayCodes[1]), b \in DriverEntries(ReplayCodes[2])}

Init ==
    /\ frames = <<>>
    /\ EngineInit

\* The frame source appends the next frame, before the engine runs.
AppendFrame ==
    /\ call = NoCall
    /\ Len(frames) < MaxReplayFrames
    /\ \E f \in ReplayFrames(Len(frames)) : frames' = Append(frames, f)
    /\ UNCHANGED call
    /\ EngineUnchanged

\* PredictionEngine.calculate_all: reads the frames, leaves the engine as it is.
CalculateAll ==
    /\ \E current_frame_idx \in -1..Len(frames), laps_remaining \in TickLapsRemaining :
          call' = [fn |-> "calculate_all",
                   current_frame_idx |-> current_frame_idx,
                   laps_remaining |-> laps_remaining,
                   result |-> calculate_all(frames, current_frame_idx, laps_remaining)]
    /\ UNCHANGED frames
    /\ EngineUnchanged

Next ==
    \/ AppendFrame
    \/ CalculateAll

Spec == Init /\ [][Next]_vars

(***************************************************************************)
(* The engine on one frame with a single leader: the leader and a chaser   *)
(* over distances, laps and compounds, with or without a third car.        *)
(***************************************************************************)
LeaderStates ==
    {[position |-> 1, dist |-> d, tyre |-> ty, lap |-> l] :
        d \in {5556}, ty \in {1}, l \in {12, 25}}

ChaserStates ==
    {[position |-> p, dist |-> d, tyre |-> ty, lap |-> l] :
        p \in {0, 2, 3}, d \in {0, 2778, 5556}, ty \in {0, 1, 2}, l \in {1, 6, 19}}

ThirdEntries ==
    {<<>>, <<[code |-> "LEC", data |-> [position |-> 2, dist |-> 5556, tyre |-> 2, lap |-> 21]]>>}

LeaderFrames ==
    {[t |-> RInt(0),
      drivers |-> <<[code |-> "HAM", data |-> c], [code |-> "VER", data |-> l]>> \o third] :
        c \in ChaserStates, l \in LeaderStates, third \in ThirdEntries}

InitLeader ==
    /\ frames = <<>>
    /\ EngineInit

LoadLeaderFrame ==
    /\ call = NoCall
    /\ Len(frames) = 0
    /\ \E f \in LeaderFrames : frames' = <<f>>
    /\ UNCHANGED call
    /\ EngineUnchanged

NextLeader ==
    \/ LoadLeaderFrame
    \/ CalculateAll

SpecLeader == InitLeader /\ [][NextLeader]_vars

(***************************************************************************)
(* Properties of calculate_all.                                            *)
(***************************************************************************)
Calculated == call.fn = "calculate_all"

Returned == Calculated /\ call.result.ok

\* C1: whenever calculate_all returns a non-empty mapping, the
\* win_probability values of the returned records sum to 1.
C1_WinProbabilitiesSumToOne ==
    (Returned /\ DOMAIN call.result.value # {}) =>
        SumWin(call.result.value, DOMAIN call.result.value) = RInt(1)

\* C1 witness: two drivers are returned, and one of them was lifted to the
\* floor of 0.001 before the normalization.
C1_Witness ==
    /\ Returned
    /\ Cardinality(DOMAIN call.result.value) = 2
    /\ \E c \in DOMAIN call.result.value :
          /\ call.result.value[c].predicted_finish = 7
          /\ RLt(RInt(0), call.result.value[c].win_probability)
          /\ RLt(call.result.value[c].win_probability, R(1, 100))

\* C7: calculate_all never raises, for any frame list and any index; an
\* empty frame list, a negative index or a frame without drivers gives the
\* empty mapping, and an index past the end still gives a result.
C7_NeverRaises ==
    Calculated =>
        /\ call.result.ok
        /\ (\/ Len(frames) = 0
            \/ call.current_frame_idx < 0
            \/ Len(frames[Min(call.current_frame_idx, Len(frames) - 1) + 1].drivers) = 0)
               => DOMAIN call.result.value = {}

CurrentDrivers == frames[call.current_frame_idx + 1].drivers

InRange ==
    Calculated /\ 0 <= call.current_frame_idx /\ call.current_frame_idx < Len(frames)

\* C8: for an in-range index the returned mapping has exactly one entry per
\* driver whose state in the frame at that index is non-empty, none for any
\* other driver, and each entry's driver_code is its key.
C8_OneEntryPerDriverWithState ==
    InRange =>
        /\ call.result.ok
        /\ DOMAIN call.result.value =
              {CurrentDrivers[i].code : i \in
                  {j \in 1..Len(CurrentDrivers) : DOMAIN CurrentDrivers[j].data # {}}}
        /\ \A c \in DOMAIN call.result.value : call.result.value[c].driver_code = c

\* C8 witness: the current frame holds one driver with state and one with an
\* empty state, and another frame holds both with state; one entry comes back.
C8_Witness ==
    /\ InRange
    /\ Len(CurrentDrivers) = 2
    /\ \E i \in 1..2 : DOMAIN CurrentDrivers[i].data = {}
    /\ \E k \in 1..Len(frames) :
          /\ k # call.current_frame_idx + 1
          /\ Len(frames[k].drivers) = 2
          /\ \A i \in 1..2 : DOMAIN frames[k].drivers[i].data # {}
    /\ Cardinality(DOMAIN call.result.value) = 1

\* The podium probability by position, for the first eight positions.
PodiumLookup == <<R(95, 100), R(85, 100), R(70, 100), R(40, 100),
                  R(25, 100), R(15, 100), R(8, 100), R(4, 100)>>

\* C22: the normalization changes win_probability only: every returned
\* record has the podium_probability of its position's lookup value, not
\* rescaled, predicted_finish equal to its position in the frame, and pit
\* window, should_pit_now, danger_level, threat_driver and confidence as in
\* the record before normalization.
C22_OnlyWinIsNormalized ==
    (InRange /\ call.result.ok) =>
        \A c \in DOMAIN call.result.value :
            LET rec == call.result.value[c]
                data == DriverData(CurrentDrivers, c)
                pre == Val(calculate_driver_prediction(frames, call.current_frame_idx, c,
                                                       call.laps_remaining).value)
            IN  /\ rec = [pre EXCEPT !.win_probability = rec.win_probability]
                /\ data.position \in 1..8 => rec.podium_probability = PodiumLookup[data.position]
                /\ rec.predicted_finish = data.position
                /\ IsNone(rec.pit_window_start) /\ IsNone(rec.pit_window_end)
                /\ ~rec.should_pit_now
                /\ rec.danger_level = RInt(0)
                /\ IsNone(rec.threat_driver)
                /\ rec.confidence = R(6, 10)

\* C22 witness: two drivers come back, a win probability was rescaled, and
\* the two podium probabilities add up to more than 1.
C22_Witness ==
    /\ InRange /\ call.result.ok
    /\ DOMAIN call.result.value = {"VER", "HAM"}
    /\ call.result.value["VER"].win_probability #
           Val(calculate_driver_prediction(frames, call.current_frame_idx, "VER",
                                           call.laps_remaining).value).win_probability
    /\ RLt(RInt(1), RAdd(call.result.value["VER"].podium_probability,
                         call.result.value["HAM"].podium_probability))

\* The drivers of the current frame whose position is 1.
Leaders ==
    {CurrentDrivers[i].code : i \in
        {j \in 1..Len(CurrentDrivers) :
            /\ "position" \in DOMAIN CurrentDrivers[j].data
            /\ CurrentDrivers[j].data["position"] = 1}}

\* C29: in a frame with exactly one driver at position 1, the win
\* probability returned for that driver is strictly greater than that of
\* every other driver, whatever the distances, laps, compounds and
\* laps_remaining.
C29_LeaderIsFavourite ==
    (InRange /\ call.result.ok /\ Cardinality(Leaders) = 1) =>
        \A l \in Leaders, c \in DOMAIN call.result.value :
            c # l => RLt(call.result.value[c].win_probability,
                         call.result.value[l].win_probability)

\* C29 witness: the chaser at P2 is level on distance, on tyres 11 laps
\* fresher than the leader's and of a higher compound number, which is the most a chaser can get:
\* 0.25 * 1.2 * 1.05 = 0.315 against the leader's 0.40.
C29_Witness ==
    /\ InRange /\ call.result.ok
    /\ Leaders = {"VER"}
    /\ DOMAIN call.result.value = {"HAM", "VER"}
    /\ RMul(call.result.value["HAM"].win_probability, RInt(400)) =
          RMul(call.result.value["VER"].win_probability, RInt(315))

\* The call of the previous state was an in-range call of calculate_all.
WasInRange ==
    /\ call.fn = "calculate_all"
    /\ 0 <= call.current_frame_idx /\ call.current_frame_idx < Len(frames)

\* The mapping that one frame and laps_remaining determine: a record for each
\* driver with state in the frame, built from that frame alone, the win
\* probabilities rescaled by their sum.
PredictionsOf(frame, laps_remaining) ==
    LET kept == {c \in Codes(frame.drivers) :
                    ~DriverStateMissing(DriverGet(frame.drivers, c))}
    IN  Return(NormalizeWin(
            [c \in kept |->
                Val(calculate_driver_prediction(<<frame>>, 0, c, laps_remaining).value)]))

\* C30: a call of calculate_all leaves the frame list, the config, the
\* lap-time cache and the pace-model map as they were; for an in-range index
\* its result is the mapping determined by the current frame and
\* laps_remaining; and when the call before it had an equal current
\* frame and equal laps_remaining, at whatever index, the two results are
\* equal.
C30_Memoryless ==
    [][call'.fn = "calculate_all" =>
          /\ UNCHANGED <<frames, config, lap_times_cache, pace_models>>
          /\ InRange' =>
                /\ call'.result =
                      PredictionsOf(frames'[call'.current_frame_idx + 1],
                                    call'.laps_remaining)
                /\ (/\ WasInRange
                     /\ frames[call.current_frame_idx + 1] =
                           frames'[call'.current_frame_idx + 1]
                     /\ call.laps_remaining = call'.laps_remaining) =>
                       call'.result = call.result]_vars

\* C30 witness: a call at index 0 of a two-frame replay whose later frame
\* differs and would give another mapping (the tick after a rewind); the call
\* returns the mapping of frame 0.
C30_Witness ==
    /\ Returned
    /\ Len(frames) = 2
    /\ call.current_frame_idx = 0
    /\ DOMAIN call.result.value # {}
    /\ call.result = PredictionsOf(frames[1], call.laps_remaining)
    /\ call.result # PredictionsOf(frames[2], call.laps_remaining)

====
